---- MODULE Spec2Model ----
(***************************************************************************)
(* Model of the RESAS client (src/src/client.rs): the retry policy, the    *)
(* error taxonomy, one attempt (send_request), the retry loop              *)
(* (send_request_with_retry) and get.                                      *)
(*                                                                         *)
(* Text is a sequence of one-character strings, so that to_string,         *)
(* format!, contains and starts_with are computed as the code computes     *)
(* them.  Option<T> is a sequence of length 0 (None) or 1 (Some).          *)
(***************************************************************************)
EXTENDS Integers, Sequences, FiniteSets, TLC

(***************************************************************************)
(* Bounds of the model.                                                    *)
(***************************************************************************)
\* largest attempt limit a policy is constructed with (the field is a u64)
MaxLimit == 3
\* cap on the attempts of one get call (a limit of 0 is never reached: the
\* u64 counter would have to wrap first, far beyond any cap)
MaxTries == 4
\* number of sequential get calls on one client
MaxCalls == 2

(***************************************************************************)
(* Option<T>                                                               *)
(***************************************************************************)
None == <<>>

Some(x) == <<x>>

(***************************************************************************)
(* Text: literals of the source and the integer formatting of format!      *)
(***************************************************************************)
DigitChars == <<"0", "1", "2", "3", "4", "5", "6", "7", "8", "9">>

RECURSIVE IntToString(_)
IntToString(n) ==
    IF n < 10 THEN <<DigitChars[n + 1]>>
    ELSE IntToString(n \div 10) \o <<DigitChars[(n % 10) + 1]>>

starts_with(s, prefix) ==
    /\ Len(s) >= Len(prefix)
    /\ SubSeq(s, 1, Len(prefix)) = prefix

Space == <<" ">>

Quote == <<"\"">>

Two == <<"2">>

StatusCodePrefix ==
    <<"S", "t", "a", "t", "u", "s", " ", "c", "o", "d", "e", " ">>

RetriedPrefix ==
    <<"R", "e", "t", "r", "i", "e", "d", " ">>

RetriedSuffix ==
    <<" ", "b", "u", "t", " ", "c", "o", "u", "l", "d", "n", "'", "t", " ",
      "r", "e", "c", "o", "v", "e", "r">>

NullText == <<"n", "u", "l", "l">>

Busy == <<"b", "u", "s", "y">>

\* http::StatusCode::canonical_reason, for the statuses the model sends
canonical_reason(code) ==
    CASE code = 200 -> Some(<<"O", "K">>)
      [] code = 404 -> Some(<<"N", "o", "t", " ", "F", "o", "u", "n", "d">>)
      [] code = 500 -> Some(<<"I", "n", "t", "e", "r", "n", "a", "l", " ",
                              "S", "e", "r", "v", "e", "r", " ",
                              "E", "r", "r", "o", "r">>)
      [] code = 502 -> Some(<<"B", "a", "d", " ",
                              "G", "a", "t", "e", "w", "a", "y">>)
      [] code = 503 -> Some(<<"S", "e", "r", "v", "i", "c", "e", " ",
                              "U", "n", "a", "v", "a", "i", "l", "a", "b",
                              "l", "e">>)
      [] OTHER -> None

UnknownReason ==
    <<"<", "u", "n", "k", "n", "o", "w", "n", " ", "s", "t", "a", "t", "u",
      "s", " ", "c", "o", "d", "e", ">">>

\* Display of reqwest::StatusCode ("{} {}": the number, then the reason),
\* which is what status_code.to_string() and format!("{}", status_code) give
StatusCodeToString(code) ==
    IntToString(code) \o Space \o
        (IF canonical_reason(code) = None THEN UnknownReason
         ELSE canonical_reason(code)[1])

(***************************************************************************)
(* serde_json::Value, as far as the client looks at it                     *)
(***************************************************************************)
Absent == [t |-> "absent"]

Null == [t |-> "null"]

Num(n) == [t |-> "number", n |-> n]

Str(s) == [t |-> "string", s |-> s]

Arr(a) == [t |-> "array", items |-> a]

\* Display of serde_json::Value: the JSON text of the value (a string keeps
\* its double quotes; the strings of the model need no escaping)
ValueToString(v) ==
    CASE v.t = "null" -> NullText
      [] v.t = "number" -> IntToString(v.n)
      [] v.t = "string" -> Quote \o v.s \o Quote
      [] OTHER -> <<"[", "]">>

\* Value::get(key): None when the object has no such field
ValueGet(obj, key) ==
    IF obj[key] = Absent THEN None ELSE Some(obj[key])

\* Value[key]: Value::Null when the object has no such field
ValueIndex(obj, key) ==
    IF obj[key] = Absent THEN Null ELSE obj[key]

(***************************************************************************)
(* Result<T, Error>, ErrorKind and Error                                   *)
(***************************************************************************)
Ok(v) == [ok |-> TRUE, val |-> v]

Err(e) == [ok |-> FALSE, err |-> e]

Fatal == "Fatal"

Retryable == "Retryable"

\* struct Error { kind, source, message }
Error(kind, source, message) ==
    [kind |-> kind, source |-> source, message |-> message]

\* the lower-level failures: reqwest::Error (of send, of text, of
\* error_for_status, which carries the status) and serde_json::Error
ReqwestError(what, status) ==
    [lib |-> "reqwest", what |-> what, status |-> status]

SerdeError(what) == [lib |-> "serde_json", what |-> what, status |-> None]

FromReqwestErrorRetryable(e) == Error(Retryable, Some(e), None)

\* impl From<reqwest::Error> for Error
FromReqwestError(e) == Error(Fatal, Some(e), None)

FromSerdeErrorNoSource(e) == Error(Fatal, None, None)

\* impl From<serde_json::Error> for Error
FromSerdeError(e) == Error(Fatal, Some(e), None)

(***************************************************************************)
(* RetryPolicy                                                             *)
(***************************************************************************)
DefaultInterval == 60

DefaultAttempts == 3

S404 == IntToString(404)

S500 == IntToString(500)

S502 == IntToString(502)

\* impl Default for RetryPolicy
DefaultRetryPolicy ==
    [retriable_codes |-> {S500, S502},
     interval |-> DefaultInterval,
     attempts |-> DefaultAttempts]

\* the code sets a policy is constructed with: the default one, one that
\* spells a status the way StatusCode displays it, and the empty one
CodeSets ==
    { {S500, S502}, {S404, StatusCodeToString(503)}, {} }

Intervals == {1, DefaultInterval}

\* struct RetryPolicy { retriable_codes, interval, attempts }
RetryPolicies ==
    [retriable_codes : CodeSets, interval : Intervals,
     attempts : 0..MaxLimit]

(***************************************************************************)
(* What the server can answer to one request                               *)
(***************************************************************************)
GoodRecord == [valid |-> TRUE]

BadRecord == [valid |-> FALSE]

StatusCodeValues ==
    {Absent, Num(200), Num(404), Num(500), Str(IntToString(200)),
     Str(S500)}

MessageValues == {Absent, Null, Str(Busy)}

ResultValues ==
    {Absent, Arr(<<>>), Arr(<<GoodRecord>>), Arr(<<GoodRecord, GoodRecord>>),
     Arr(<<BadRecord>>)}

\* the JSON objects a body can hold
JsonObjects ==
    [statusCode : StatusCodeValues, message : MessageValues,
     result : ResultValues]

\* the body text: JSON text of an object, or text that is not JSON
BodyTexts ==
    {[json |-> FALSE]} \cup {[json |-> TRUE, value |-> o] : o \in JsonObjects}

ErrorStatuses == {404, 500, 502, 503}

\* send() fails | an error status | the body cannot be read | a body
Responses ==
    {[t |-> "send_failed"]}
        \cup {[t |-> "http", status |-> c, readable |-> TRUE,
               text |-> [json |-> FALSE]] : c \in ErrorStatuses}
        \cup {[t |-> "http", status |-> 200, readable |-> FALSE,
               text |-> [json |-> FALSE]]}
        \cup {[t |-> "http", status |-> 200, readable |-> TRUE, text |-> b] :
                b \in BodyTexts}

\* Response::error_for_status: an error for 4xx and 5xx
error_for_status(resp) ==
    IF resp.status >= 400 /\ resp.status < 600
    THEN Err(ReqwestError("status", Some(resp.status)))
    ELSE Ok(resp)

\* serde_json::from_str::<Value>
ParseValue(text) ==
    IF text.json THEN Ok(text.value) ELSE Err(SerdeError("syntax"))

(***************************************************************************)
(* Client::send_request: one attempt, as a function of the answer          *)
(***************************************************************************)
\* the Ok(response) arm, lines 133-164
SendRequestOk(policy, resp) ==
    IF ~resp.readable
    THEN Err(FromReqwestError(ReqwestError("body", None)))
    ELSE IF ~ParseValue(resp.text).ok
    THEN Err(FromSerdeError(ParseValue(resp.text).err))
    ELSE LET response_json == ParseValue(resp.text).val
             status_code == ValueGet(response_json, "statusCode")
         IN  IF status_code = None THEN Ok(resp.text)
             ELSE IF ValueToString(status_code[1]) \in policy.retriable_codes
             THEN Err(Error(Retryable, None,
                        Some(ValueToString(
                                ValueIndex(response_json, "message")))))
             ELSE IF starts_with(ValueToString(status_code[1]), Two)
             THEN Ok(resp.text)
             ELSE Err(Error(Fatal, None,
                        Some(ValueToString(status_code[1]) \o Space \o
                             ValueToString(
                                ValueIndex(response_json, "message")))))

\* the Err(err) arm, lines 165-180
SendRequestErr(policy, err) ==
    IF /\ err.status # None
       /\ StatusCodeToString(err.status[1]) \in policy.retriable_codes
    THEN Err(Error(Retryable, Some(err),
                   Some(StatusCodePrefix \o StatusCodeToString(err.status[1]))))
    ELSE Err(FromReqwestError(err))

send_request(policy, resp) ==
    IF resp.t = "send_failed"
    THEN Err(FromReqwestError(ReqwestError("send", None)))
    ELSE IF error_for_status(resp).ok
    THEN SendRequestOk(policy, error_for_status(resp).val)
    ELSE SendRequestErr(policy, error_for_status(resp).err)

(***************************************************************************)
(* ResasResponse<T> and its deserialization in get                         *)
(***************************************************************************)
\* message: Option<String>
DeserializeMessage(v) ==
    IF v.t = "string" THEN Ok(Some(v.s))
    ELSE IF v.t \in {"absent", "null"} THEN Ok(None)
    ELSE Err(SerdeError("invalid type"))

\* pub result: Vec<T>: a required field, each item a T
DeserializeResult(v) ==
    IF v.t = "absent" THEN Err(SerdeError("missing field"))
    ELSE IF v.t # "array" THEN Err(SerdeError("invalid type"))
    ELSE IF \E i \in 1..Len(v.items) : ~v.items[i].valid
    THEN Err(SerdeError("invalid item"))
    ELSE Ok(v.items)

DeserializeDropMessage(text) ==
    IF ~text.json THEN Err(SerdeError("syntax"))
    ELSE IF ~DeserializeMessage(text.value.message).ok
    THEN DeserializeMessage(text.value.message)
    ELSE IF ~DeserializeResult(text.value.result).ok
    THEN DeserializeResult(text.value.result)
    ELSE Ok([message |-> None,
             result |-> DeserializeResult(text.value.result).val])

\* serde_json::from_str::<ResasResponse<T>>; fields the struct does not
\* name (statusCode) are ignored
Deserialize(text) ==
    IF ~text.json THEN Err(SerdeError("syntax"))
    ELSE IF ~DeserializeMessage(text.value.message).ok
    THEN DeserializeMessage(text.value.message)
    ELSE IF ~DeserializeResult(text.value.result).ok
    THEN DeserializeResult(text.value.result)
    ELSE Ok([message |-> DeserializeMessage(text.value.message).val,
             result |-> DeserializeResult(text.value.result).val])

GetFinishFatal(r) ==
    IF ~r.ok THEN Err(Error(Fatal, r.err.source, r.err.message))
    ELSE IF Deserialize(r.val).ok THEN Deserialize(r.val)
    ELSE Err(FromSerdeError(Deserialize(r.val).err))

\* the tail of get, lines 194-198: `?` on the text, then from_str and `?`
GetFinish(r) ==
    IF ~r.ok THEN r
    ELSE IF Deserialize(r.val).ok THEN Deserialize(r.val)
    ELSE Err(FromSerdeError(Deserialize(r.val).err))

(***************************************************************************)
(* The retry loop's decisions                                              *)
(***************************************************************************)
RetryEveryKind(err) == TRUE

\* match err.kind { Fatal => return Err(err), Retryable => err }
IsRetryableKind(err) == err.kind = Retryable

\* attempts == self.retry_policy.attempts
Exhausted(n, policy) == n = policy.attempts

\* format!("Retried {} but couldn't recover", attempts)
RetriedMessage(n) == RetriedPrefix \o IntToString(n) \o RetriedSuffix

EscalateDropSource(err, n) == Error(Fatal, None, Some(RetriedMessage(n)))

EscalateKeepKind(err, n) ==
    Error(err.kind, err.source, Some(RetriedMessage(n)))

\* the error built when the budget is used up, lines 116-120
Escalate(err, n) == Error(Fatal, err.source, Some(RetriedMessage(n)))

(***************************************************************************)
(* State                                                                   *)
(***************************************************************************)
VARIABLES
    client,      \* Client { api_key, retry_policy }
    pc,          \* "idle", "request", "sleep", "done": where get stands
    with_retry,  \* the argument of the running get
    attempts,    \* the loop's counter (let mut attempts)
    resp,        \* what the server answered to the last request
    last,        \* what the last send_request returned
    result,      \* what get returned
    tries,       \* send_request calls of the running get
    retryables,  \* how many of them returned a Retryable error
    sleeps,      \* thread::sleep calls of the running get
    slept,       \* seconds slept by the running get
    calls,       \* get calls started on this client
    earlier,     \* Retryable errors the earlier get calls have consumed
    e,           \* an error value of error.rs or client.rs and what was
                 \* done with it (to_fatal, Display)
    o            \* the run of main in bin/sample_request.rs

vars ==
    <<client, pc, with_retry, attempts, resp, last, result, tries,
      retryables, sleeps, slept, calls, earlier, e, o>>

\* what the client's operations leave alone
others == <<e, o>>

\* what the operations on errors and the run of main leave alone
clientVars ==
    <<client, pc, with_retry, attempts, resp, last, result, tries,
      retryables, sleeps, slept, calls, earlier>>

NoResponse == [t |-> "none"]

NoValue == [ok |-> FALSE, err |-> Error("none", None, None)]

ApiKeys == {"key"}

\* Client::new
NewClient(api_key, retry_policy) ==
    [api_key |-> api_key, retry_policy |-> retry_policy]

\* no error value is under study, main is not running
NoErrorCase == [pc |-> "none"]

NoRun == [pc |-> "none"]

\* the client as constructed, before its first get
ClientInit(policies) ==
    /\ client \in {NewClient(k, p) : k \in ApiKeys, p \in policies}
    /\ pc = "idle"
    /\ with_retry = FALSE
    /\ attempts = 0
    /\ resp = NoResponse
    /\ last = NoValue
    /\ result = NoValue
    /\ tries = 0
    /\ retryables = 0
    /\ sleeps = 0
    /\ slept = 0
    /\ calls = 0
    /\ earlier = 0

Init ==
    /\ ClientInit(RetryPolicies)
    /\ e = NoErrorCase
    /\ o = NoRun

(***************************************************************************)
(* Operations                                                              *)
(***************************************************************************)
GetKeepAttempts(w) ==
    /\ pc = "idle"
    /\ calls < MaxCalls
    /\ calls' = calls + 1
    /\ with_retry' = w
    /\ resp' = NoResponse
    /\ last' = NoValue
    /\ result' = NoValue
    /\ tries' = 0
    /\ retryables' = 0
    /\ sleeps' = 0
    /\ slept' = 0
    /\ pc' = "request"
    /\ earlier' = earlier + retryables
    /\ UNCHANGED <<client, attempts, others>>

\* get is called: the url is built and the request path chosen
Get(w) ==
    /\ pc = "idle"
    /\ calls < MaxCalls
    /\ calls' = calls + 1
    /\ with_retry' = w
    /\ attempts' = 0
    /\ resp' = NoResponse
    /\ last' = NoValue
    /\ result' = NoValue
    /\ tries' = 0
    /\ retryables' = 0
    /\ sleeps' = 0
    /\ slept' = 0
    /\ pc' = "request"
    /\ earlier' = earlier + retryables
    /\ UNCHANGED <<client, others>>

Counted(r, out) ==
    /\ resp' = r
    /\ last' = out
    /\ tries' = tries + 1
    /\ retryables' =
         IF ~out.ok /\ out.err.kind = Retryable THEN retryables + 1
         ELSE retryables

\* with_retry = false: one send_request, then the tail of get
GetOnce(r) ==
    /\ pc = "request"
    /\ ~with_retry
    /\ LET out == send_request(client.retry_policy, r)
       IN  /\ Counted(r, out)
           /\ result' = GetFinish(out)
    /\ pc' = "done"
    /\ UNCHANGED <<client, with_retry, attempts, sleeps, slept, calls,
                   earlier, others>>

\* with_retry = true: one turn of the loop of send_request_with_retry, up to
\* its return (then the tail of get) or up to its sleep
RetryTurn(r) ==
    /\ pc = "request"
    /\ with_retry
    /\ tries < MaxTries
    /\ LET out == send_request(client.retry_policy, r)
       IN  /\ Counted(r, out)
           /\ IF out.ok \/ ~IsRetryableKind(out.err)
              THEN /\ result' = GetFinish(out)
                   /\ pc' = "done"
                   /\ UNCHANGED attempts
              ELSE /\ attempts' = attempts + 1
                   /\ IF Exhausted(attempts + 1, client.retry_policy)
                      THEN /\ result' =
                                GetFinish(Err(Escalate(out.err, attempts + 1)))
                           /\ pc' = "done"
                      ELSE /\ pc' = "sleep"
                           /\ UNCHANGED result
    /\ UNCHANGED <<client, with_retry, sleeps, slept, calls, earlier,
                   others>>

SleepSkipped ==
    /\ pc = "sleep"
    /\ pc' = "request"
    /\ UNCHANGED <<client, with_retry, attempts, resp, last, result, tries,
                   retryables, sleeps, slept, calls, earlier, others>>

\* thread::sleep(Duration::from_secs(interval)), then the loop goes round
Sleep ==
    /\ pc = "sleep"
    /\ sleeps < MaxTries
    /\ sleeps' = sleeps + 1
    /\ slept' = slept + client.retry_policy.interval
    /\ pc' = "request"
    /\ UNCHANGED <<client, with_retry, attempts, resp, last, result, tries,
                   retryables, calls, earlier, others>>

\* the caller has the result; the client is ready for the next call
Return ==
    /\ pc = "done"
    /\ pc' = "idle"
    /\ UNCHANGED <<client, with_retry, attempts, resp, last, result, tries,
                   retryables, sleeps, slept, calls, earlier, others>>

Next ==
    \/ \E w \in BOOLEAN : Get(w)
    \/ \E r \in Responses : GetOnce(r)
    \/ \E r \in Responses : RetryTurn(r)
    \/ Sleep
    \/ Return

Spec == Init /\ [][Next]_vars

(***************************************************************************)
(* Properties                                                              *)
(***************************************************************************)
Policy == client.retry_policy

InCall == pc \in {"request", "sleep", "done"}

\* the last answer was an HTTP success with a body that is a JSON object
JsonBody ==
    /\ resp.t = "http"
    /\ resp.status = 200
    /\ resp.readable
    /\ resp.text.json

\* the last answer was an HTTP error status
ErrorStatus == resp.t = "http" /\ resp.status \in ErrorStatuses

\* C1: a get with with_retry = true performs at most n attempts, n being
\* the policy's attempt limit, for every limit the field can hold.
C1_AtMostLimitTries ==
    (InCall /\ with_retry) => tries <= Policy.attempts

\* C2: when every attempt failed with a Retryable error until the limit n
\* was reached, get returns a Fatal error whose message is "Retried <n> but
\* couldn't recover" and whose cause is the cause of the last Retryable
\* error (none when it had none).
C2_ExhaustedIsFatal ==
    (/\ pc = "done"
     /\ with_retry
     /\ retryables = tries
     /\ tries = Policy.attempts)
        => /\ ~last.ok
           /\ result =
                Err(Error(Fatal, last.err.source,
                          Some(RetriedPrefix \o IntToString(Policy.attempts)
                                   \o RetriedSuffix)))

C2_Witness ==
    /\ pc = "done"
    /\ with_retry
    /\ Policy.attempts = DefaultAttempts
    /\ retryables = DefaultAttempts
    /\ tries = DefaultAttempts
    /\ ~result.ok
    /\ result.err.source # None
    /\ result.err.message =
         Some(<<"R", "e", "t", "r", "i", "e", "d", " ", "3", " ", "b", "u",
                "t", " ", "c", "o", "u", "l", "d", "n", "'", "t", " ", "r",
                "e", "c", "o", "v", "e", "r">>)

\* C3: a get with with_retry = true never returns a Retryable error: what
\* it returns is a success or a Fatal error.
C3_NeverRetryableWithRetry ==
    (pc = "done" /\ with_retry) => (result.ok \/ result.err.kind = Fatal)

C3_Witness ==
    /\ pc = "done"
    /\ with_retry
    /\ retryables > 0
    /\ ~last.ok
    /\ last.err.kind = Retryable
    /\ ~result.ok
    /\ result.err.kind = Fatal

\* C4: an attempt that receives an HTTP error status whose numeric code is
\* in the retryable-code set returns a Retryable error with message
\* "Status code <code>" and the transport error as cause, and a get with
\* with_retry = true retries it (or reports the exhausted budget).
C4_RetryableHttpStatus ==
    (/\ InCall
     /\ ErrorStatus
     /\ IntToString(resp.status) \in Policy.retriable_codes)
        => /\ last =
                Err(Error(Retryable,
                          Some(ReqwestError("status", Some(resp.status))),
                          Some(StatusCodePrefix \o IntToString(resp.status))))
           /\ with_retry =>
                \/ pc = "sleep"
                \/ pc = "request"
                \/ pc = "done" /\ attempts = Policy.attempts

\* the text a JSON field stands for: the string itself, nothing when the
\* field is null or absent
FieldText(v) == IF v.t = "string" THEN Some(v.s) ELSE None

\* C5: an attempt that receives an HTTP success and a body whose statusCode
\* has a string form in the retryable-code set yields a Retryable error with
\* no cause and with the body's message field as message; with
\* with_retry = false get returns this error.
C5_RetryableBodyCode ==
    (/\ InCall
     /\ JsonBody
     /\ resp.text.value.statusCode # Absent
     /\ ValueToString(resp.text.value.statusCode) \in Policy.retriable_codes)
        => /\ last =
                Err(Error(Retryable, None,
                          FieldText(resp.text.value.message)))
           /\ (~with_retry) => (pc = "done" /\ result = last)

\* C6: an attempt that receives an HTTP success and a body whose statusCode
\* is not in the retryable-code set and does not start with "2" makes get
\* return a Fatal error with no cause and the message "<statusCode>
\* <message>" ("404 m"), without a retry or a sleep.  Stated for a numeric
\* statusCode and a string message, on the first attempt.
C6_FatalBodyCode ==
    (/\ InCall
     /\ JsonBody
     /\ tries = 1
     /\ resp.text.value.statusCode.t = "number"
     /\ resp.text.value.message.t = "string"
     /\ ValueToString(resp.text.value.statusCode) \notin Policy.retriable_codes
     /\ ~starts_with(ValueToString(resp.text.value.statusCode), Two))
        => /\ pc = "done"
           /\ sleeps = 0
           /\ result =
                Err(Error(Fatal, None,
                          Some(IntToString(resp.text.value.statusCode.n)
                                   \o Space \o resp.text.value.message.s)))

\* the code a statusCode field carries: of a number its digits, of a string
\* its characters
CodeOf(v) == IF v.t = "number" THEN IntToString(v.n) ELSE v.s

\* C7: an attempt that receives an HTTP success and a body whose statusCode
\* is not in the retryable-code set and begins with "2" succeeds with the
\* raw body text, whether the field is the number 200 or the string "200".
C7_SuccessBodyCode ==
    (/\ InCall
     /\ JsonBody
     /\ resp.text.value.statusCode.t \in {"number", "string"}
     /\ CodeOf(resp.text.value.statusCode) \notin Policy.retriable_codes
     /\ starts_with(CodeOf(resp.text.value.statusCode), Two))
        => last = Ok(resp.text)

\* C8: for an HTTP success whose body is a JSON object without statusCode
\* (result and message both optional), get returns the parsed body after
\* exactly one attempt, for either value of with_retry.  Stated for bodies
\* whose records, if any, are well formed.
C8_PlainBodyReturned ==
    (/\ pc = "done"
     /\ JsonBody
     /\ tries = 1
     /\ resp.text.value.statusCode = Absent
     /\ resp.text.value.result \in {Absent, Arr(<<>>), Arr(<<GoodRecord>>)})
        => /\ result.ok
           /\ result.val.message = FieldText(resp.text.value.message)
           /\ result.val.result =
                (IF resp.text.value.result = Absent THEN <<>>
                 ELSE resp.text.value.result.items)

\* C9: in the retry loop an attempt that fails with a Fatal error ends the
\* call: get returns that error unchanged, and no attempt and no sleep
\* follows it (as many sleeps as attempts before it).
C9_FatalReturnsAtOnce ==
    (/\ InCall
     /\ with_retry
     /\ tries > 0
     /\ ~last.ok
     /\ last.err.kind = Fatal)
        => /\ pc = "done"
           /\ result = last
           /\ sleeps = tries - 1
           /\ tries = retryables + 1

C9_Witness ==
    /\ pc = "done"
    /\ with_retry
    /\ ErrorStatus
    /\ resp.status = 503
    /\ StatusCodeToString(503) \notin Policy.retriable_codes
    /\ result = Err(Error(Fatal, Some(ReqwestError("status", Some(503))), None))
    /\ tries = 1
    /\ sleeps = 0

\* the lower-level failure of the last answer, if it is one: send failed,
\* the body could not be read, or the body is not JSON
LowLevelFailure ==
    IF resp.t = "send_failed" THEN Some(ReqwestError("send", None))
    ELSE IF resp.t = "http" /\ resp.status = 200 /\ ~resp.readable
    THEN Some(ReqwestError("body", None))
    ELSE IF resp.t = "http" /\ resp.status = 200 /\ ~resp.text.json
    THEN Some(SerdeError("syntax"))
    ELSE None

\* C10: a transport failure or a body that is not JSON yields a Fatal error
\* with the lower-level failure as cause and no message, for every policy;
\* with with_retry = true it is never retried (get returns it; when it is
\* the first attempt: one attempt, no sleep).
C10_LowLevelIsFatal ==
    (InCall /\ tries > 0 /\ LowLevelFailure # None)
        => /\ last = Err(Error(Fatal, LowLevelFailure, None))
           /\ pc = "done"
           /\ result = last
           /\ sleeps = tries - 1
           /\ (retryables = 0) => (tries = 1 /\ sleeps = 0)

C10_Witness ==
    /\ pc = "done"
    /\ with_retry
    /\ resp.t = "send_failed"
    /\ tries = 1
    /\ sleeps = 0
    /\ result = Err(Error(Fatal, Some(ReqwestError("send", None)), None))

\* C11: when an attempt succeeds but its body does not deserialize into the
\* typed envelope, get returns a Fatal error with the parsing failure as
\* cause, for either value of with_retry, and no attempt or sleep follows.
C11_DeserializeFailureIsFatal ==
    (/\ InCall
     /\ tries > 0
     /\ last.ok
     /\ ~Deserialize(last.val).ok)
        => /\ pc = "done"
           /\ ~result.ok
           /\ result.err.kind = Fatal
           /\ result.err.source # None
           /\ result.err.source[1].lib = "serde_json"
           /\ result.err.message = None
           /\ tries = retryables + 1
           /\ sleeps = (IF with_retry THEN tries - 1 ELSE 0)

C11_Witness ==
    /\ pc = "done"
    /\ with_retry
    /\ JsonBody
    /\ resp.text.value.result = Arr(<<BadRecord>>)
    /\ last = Ok(resp.text)
    /\ sleeps = 1
    /\ tries = 2
    /\ result = Err(Error(Fatal, Some(SerdeError("invalid item")), None))

\* C12: in a get with with_retry = true the client sleeps the policy's
\* interval between two consecutive attempts and at no other time: none
\* before the first attempt, none after the attempt that ends the call, so
\* k attempts come with k - 1 sleeps.
C12_SleepsBetweenAttempts ==
    (InCall /\ with_retry)
        => /\ slept = sleeps * Policy.interval
           /\ (tries = 0) => (sleeps = 0)
           /\ (pc = "request") => (sleeps = tries)
           /\ (pc \in {"sleep", "done"}) => (sleeps = tries - 1)

C12_Witness ==
    /\ pc = "done"
    /\ with_retry
    /\ Policy = DefaultRetryPolicy
    /\ JsonBody
    /\ resp.text.value.statusCode = Num(500)
    /\ tries = 3
    /\ retryables = 3
    /\ sleeps = 2
    /\ slept = 2 * DefaultInterval
    /\ ~result.ok
    /\ result.err.kind = Fatal

\* C13: a get with with_retry = false performs exactly one attempt and
\* never sleeps, and the error of that attempt, Fatal or Retryable, is
\* returned with its cause and message unchanged.
C13_SingleAttemptUnchanged ==
    (InCall /\ ~with_retry)
        => /\ sleeps = 0
           /\ slept = 0
           /\ tries <= 1
           /\ (pc = "done") => (tries = 1 /\ (~last.ok => result = last))

C13_Witness ==
    /\ pc = "done"
    /\ ~with_retry
    /\ tries = 1
    /\ ~result.ok
    /\ result.err.kind = Retryable
    /\ result.err.source # None
    /\ result.err.message # None

\* C14: the client is read-only after construction: no get changes its API
\* key or retry policy, and every get with with_retry = true starts its
\* attempt counter at 0 and counts only the Retryable errors of its own
\* call, whatever the earlier calls have consumed.
C14_ClientReadOnly ==
    /\ [][client' = client]_vars
    /\ []((pc = "request" /\ tries = 0) => attempts = 0)
    /\ []((InCall /\ with_retry) => attempts = retryables)

C14_Witness ==
    /\ calls = 2
    /\ with_retry
    /\ Policy.attempts = 2
    /\ earlier = 2
    /\ pc = "sleep"
    /\ attempts = 1
    /\ tries = 1

(***************************************************************************)
(* The error values on their own: to_fatal of error.rs and the two         *)
(* Display implementations (error.rs and client.rs)                        *)
(***************************************************************************)
\* write!(f, "Fatal error: ") and write!(f, "Retryable error: ") of client.rs
ClientFatalPrefix ==
    <<"F", "a", "t", "a", "l", " ", "e", "r", "r", "o", "r", ":", " ">>

ClientRetryablePrefix ==
    <<"R", "e", "t", "r", "y", "a", "b", "l", "e", " ", "e", "r", "r", "o",
      "r", ":", " ">>

\* write!(f, "Fatal error! ") and write!(f, "Retryable error! ") of error.rs
FatalPrefix ==
    <<"F", "a", "t", "a", "l", " ", "e", "r", "r", "o", "r", "!", " ">>

RetryablePrefix ==
    <<"R", "e", "t", "r", "y", "a", "b", "l", "e", " ", "e", "r", "r", "o",
      "r", "!", " ">>

\* source.fmt(f): the Display of the cause, a text of the lower-level error
SourceToString(c) ==
    IF c.lib = "reqwest"
    THEN
        <<"e", "r", "r", "o", "r", " ", "s", "e", "n", "d", "i", "n", "g",
          " ", "r", "e", "q", "u", "e", "s", "t">>
    ELSE
        <<"e", "x", "p", "e", "c", "t", "e", "d", " ", "v", "a", "l", "u",
          "e">>

\* the message and then the source, each when present (both Display impls)
MessageAndSource(err) ==
    (IF err.message # None THEN err.message[1] ELSE <<>>)
        \o (IF err.source # None THEN SourceToString(err.source[1]) ELSE <<>>)

\* impl fmt::Display for Error of client.rs
ClientErrorToString(err) ==
    (IF err.kind = Fatal THEN ClientFatalPrefix ELSE ClientRetryablePrefix)
        \o MessageAndSource(err)

\* impl fmt::Display for Error of error.rs
ErrorToString(err) ==
    (IF err.kind = Fatal THEN FatalPrefix ELSE RetryablePrefix)
        \o MessageAndSource(err)

to_fatal_copy(self, message) ==
    [ret |-> Error(Fatal, self.source, message), self |-> self]

\* Error::to_fatal of error.rs: the new error, and self after source.take()
to_fatal(self, message) ==
    [ret |-> Error(Fatal, self.source, message),
     self |-> [self EXCEPT !.source = None]]

\* the errors and the messages the operations are applied to
Errors ==
    [kind : {Fatal, Retryable},
     source : {None, Some(ReqwestError("send", None)),
               Some(SerdeError("syntax"))},
     message : {None, Some(Busy), Some(StatusCodePrefix \o S500)}]

Messages == {None, Some(Busy), Some(RetriedMessage(DefaultAttempts))}

NoError == Error("none", None, None)

\* Error::new of error.rs, or an Error of client.rs
ErrInit ==
    /\ ClientInit({DefaultRetryPolicy})
    /\ o = NoRun
    /\ \E t \in {"error", "client"}, err \in Errors, msg \in Messages :
          /\ t = "client" => msg = None
          /\ e = [pc |-> "new", type |-> t, orig |-> err, self |-> err,
                  arg |-> msg, ret |-> NoError, shown |-> NoError,
                  text |-> <<>>]

\* self.to_fatal(arg) on an Error of error.rs
ToFatal ==
    /\ e.pc = "new"
    /\ e.type = "error"
    /\ e' = [e EXCEPT !.pc = "escalated",
                      !.self = to_fatal(e.self, e.arg).self,
                      !.ret = to_fatal(e.self, e.arg).ret]
    /\ UNCHANGED <<clientVars, o>>

\* format!("{}", err) of the error at hand: the escalated one if there is
DisplayError ==
    /\ e.pc \in {"new", "escalated"}
    /\ LET err == IF e.pc = "escalated" THEN e.ret ELSE e.self
       IN  e' = [e EXCEPT !.pc = "shown",
                          !.shown = err,
                          !.text = IF e.type = "error"
                                   THEN ErrorToString(err)
                                   ELSE ClientErrorToString(err)]
    /\ UNCHANGED <<clientVars, o>>

ErrNext ==
    \/ ToFatal
    \/ DisplayError

ErrSpec == ErrInit /\ [][ErrNext]_vars

\* C15: to_fatal(message) returns a new error of kind Fatal with the
\* original's cause and the supplied message, for an original of either
\* kind; afterwards the original holds no cause, its kind and message are
\* as before.
C15_ToFatalMovesCause ==
    (e.pc = "escalated")
        => /\ e.ret.kind = Fatal
           /\ e.ret.source = e.orig.source
           /\ e.ret.message = e.arg
           /\ e.self.source = None
           /\ e.self.kind = e.orig.kind
           /\ e.self.message = e.orig.message

C15_Witness ==
    /\ e.pc = "escalated"
    /\ e.orig.kind = Retryable
    /\ e.orig.source = Some(ReqwestError("send", None))
    /\ e.orig.message = Some(Busy)
    /\ e.arg = Some(RetriedMessage(DefaultAttempts))
    /\ e.ret.source = Some(ReqwestError("send", None))

\* the word a kind is rendered as
KindWord(kind) ==
    IF kind = Fatal THEN <<"F", "a", "t", "a", "l">>
    ELSE <<"R", "e", "t", "r", "y", "a", "b", "l", "e">>

\* C16: an error is displayed as "<Kind> error: ", then the message if
\* present, then the cause if present, for both error types of the
\* repository.
C16_DisplayFormat ==
    (e.pc = "shown")
        => e.text =
             KindWord(e.shown.kind)
                 \o <<" ", "e", "r", "r", "o", "r", ":", " ">>
                 \o (IF e.shown.message # None THEN e.shown.message[1]
                     ELSE <<>>)
                 \o (IF e.shown.source # None
                     THEN SourceToString(e.shown.source[1]) ELSE <<>>)

(***************************************************************************)
(* main of bin/sample_request.rs: the prefectures, then the cities of each *)
(* prefecture, then the parquet file                                       *)
(***************************************************************************)
IntervalMillis == 200

\* the answers the retry loop returns at once, and those it retries
Retried(policy) ==
    {r \in Responses :
        /\ ~send_request(policy, r).ok
        /\ IsRetryableKind(send_request(policy, r).err)}

\* what get(path, parameters, true) can return under a policy: the tail of
\* get on an answer the loop returns, or on the error of the used-up budget
GetResults(policy) ==
    {GetFinish(send_request(policy, r)) : r \in Responses \ Retried(policy)}
        \cup {GetFinish(Err(Escalate(send_request(policy, r).err,
                                     policy.attempts))) :
                r \in {x \in Retried(policy) : policy.attempts >= 1}}

\* main has parsed its arguments and built the client (lines 23-25)
OrchInit ==
    /\ ClientInit({DefaultRetryPolicy})
    /\ e = NoErrorCase
    /\ o = [pc |-> "prefectures", prefs |-> <<>>, idx |-> 0, gets |-> 0,
            slept_ms |-> 0, rows |-> 0, file |-> "none", err |-> NoError,
            panic |-> "none"]

\* lines 26-29: get the prefectures, panic on an error
FetchPrefectures(res) ==
    /\ o.pc = "prefectures"
    /\ o' = IF res.ok
            THEN [o EXCEPT !.gets = o.gets + 1, !.prefs = res.val.result,
                           !.pc = "cities"]
            ELSE [o EXCEPT !.gets = o.gets + 1, !.err = res.err,
                           !.pc = "panicked", !.panic = "get"]
    /\ UNCHANGED <<clientVars, e>>

FetchCitiesIgnoreError(res) ==
    /\ o.pc = "cities"
    /\ o.idx < Len(o.prefs)
    /\ o' = IF res.ok
            THEN [o EXCEPT !.gets = o.gets + 1, !.idx = o.idx + 1,
                           !.slept_ms = o.slept_ms + IntervalMillis,
                           !.rows = o.rows + Len(res.val.result)]
            ELSE [o EXCEPT !.gets = o.gets + 1, !.idx = o.idx + 1,
                           !.slept_ms = o.slept_ms + IntervalMillis,
                           !.err = res.err]
    /\ UNCHANGED <<clientVars, e>>

\* lines 33-53, one item of the flat_map that collect_vec drives: the
\* delay, get the cities of the next prefecture (expect: panic on an
\* error), one row per city
FetchCities(res) ==
    /\ o.pc = "cities"
    /\ o.idx < Len(o.prefs)
    /\ o' = IF res.ok
            THEN [o EXCEPT !.gets = o.gets + 1, !.idx = o.idx + 1,
                           !.slept_ms = o.slept_ms + IntervalMillis,
                           !.rows = o.rows + Len(res.val.result)]
            ELSE [o EXCEPT !.gets = o.gets + 1,
                           !.slept_ms = o.slept_ms + IntervalMillis,
                           !.err = res.err,
                           !.pc = "panicked", !.panic = "get"]
    /\ UNCHANGED <<clientVars, e>>

\* lines 56-77: the rows are collected; rows_iter.get(0).expect panics
\* when there is no row; the columns and the record batch are built
BuildBatch ==
    /\ o.pc = "cities"
    /\ o.idx = Len(o.prefs)
    /\ o' = IF o.rows = 0
            THEN [o EXCEPT !.pc = "panicked", !.panic = "no rows"]
            ELSE [o EXCEPT !.pc = "create"]
    /\ UNCHANGED <<clientVars, e>>

\* lines 79-80: File::create(output_path).expect
CreateFile(ok) ==
    /\ o.pc = "create"
    /\ o' = IF ok THEN [o EXCEPT !.pc = "write", !.file = "created"]
            ELSE [o EXCEPT !.pc = "panicked", !.panic = "create"]
    /\ UNCHANGED <<clientVars, e>>

\* lines 81-87: the writer is made and the batch written, expect on each
WriteBatch(ok) ==
    /\ o.pc = "write"
    /\ o' = IF ok THEN [o EXCEPT !.pc = "close", !.file = "written"]
            ELSE [o EXCEPT !.pc = "panicked", !.panic = "write"]
    /\ UNCHANGED <<clientVars, e>>

\* lines 88-89: writer.close().expect, then "Saved to"
CloseWriter(ok) ==
    /\ o.pc = "close"
    /\ o' = IF ok THEN [o EXCEPT !.pc = "saved", !.file = "closed"]
            ELSE [o EXCEPT !.pc = "panicked", !.panic = "close"]
    /\ UNCHANGED <<clientVars, e>>

OrchNext ==
    \/ \E res \in GetResults(Policy) : FetchPrefectures(res)
    \/ \E res \in GetResults(Policy) : FetchCities(res)
    \/ BuildBatch
    \/ \E ok \in BOOLEAN : CreateFile(ok)
    \/ \E ok \in BOOLEAN : WriteBatch(ok)
    \/ \E ok \in BOOLEAN : CloseWriter(ok)

OrchSpec == OrchInit /\ [][OrchNext]_vars

\* GetResults is what the client machine returns: every result of a get with
\* with_retry = true is one of GetResults (checked under Spec)
GetResultsCoverGet ==
    (pc = "done" /\ with_retry /\ Policy.attempts >= 1)
        => result \in GetResults(Policy)

\* C17: main calls get once for the prefectures and then once per
\* prefecture; an error of any of these calls ends the run: no get call
\* follows it and the file is never created; the file is created only
\* after every fetch of cities has succeeded.
C17_ErrorAbortsRun ==
    /\ [](/\ o.gets <= 1 + Len(o.prefs)
          /\ (o.pc \notin {"prefectures", "panicked"})
                => (o.gets = 1 + o.idx)
          /\ (o.err # NoError)
                => (o.pc = "panicked" /\ o.file = "none")
          /\ (o.file # "none")
                => (/\ o.err = NoError
                    /\ o.idx = Len(o.prefs)
                    /\ o.gets = 1 + Len(o.prefs)))
    /\ [][(o.err # NoError) => (o'.gets = o.gets /\ o'.file = "none")]_vars

C17_Witness ==
    /\ o.pc = "panicked"
    /\ o.panic = "get"
    /\ o.err.kind = Fatal
    /\ o.err.message = Some(RetriedMessage(DefaultAttempts))
    /\ Len(o.prefs) = 2
    /\ o.idx = 1
    /\ o.gets = 3
    /\ o.file = "none"

(***************************************************************************)
(* The retry loop beyond the cap of the model, and the end of the counter  *)
(*                                                                         *)
(* Spec stops a call at MaxTries attempts.  Here the loop goes on: past    *)
(* the cap the counters of the model stay at MaxTries and stand for every  *)
(* larger value, which no limit of the model equals (MaxLimit <= MaxTries).*)
(* attempts is a u64: attempts += 1 at u64::MAX panics in a build with     *)
(* overflow checks (debug) and wraps to 0 in one without (release).        *)
(***************************************************************************)
\* a turn of the loop past the cap: as RetryTurn, the counters left alone
RetryTurnBeyond(r) ==
    /\ pc = "request"
    /\ with_retry
    /\ tries = MaxTries
    /\ LET out == send_request(client.retry_policy, r)
       IN  /\ resp' = r
           /\ last' = out
           /\ IF out.ok \/ ~IsRetryableKind(out.err)
              THEN /\ result' = GetFinish(out)
                   /\ pc' = "done"
              ELSE IF Exhausted(attempts + 1, client.retry_policy)
              THEN /\ result' =
                        GetFinish(Err(Escalate(out.err, attempts + 1)))
                   /\ pc' = "done"
              ELSE /\ pc' = "sleep"
                   /\ UNCHANGED result
    /\ UNCHANGED <<client, with_retry, attempts, tries, retryables, sleeps,
                   slept, calls, earlier, others>>

\* the sleep past the cap
SleepBeyond ==
    /\ pc = "sleep"
    /\ sleeps = MaxTries
    /\ pc' = "request"
    /\ UNCHANGED <<client, with_retry, attempts, resp, last, result, tries,
                   retryables, sleeps, slept, calls, earlier, others>>

\* attempts += 1 at u64::MAX with overflow checks: the thread panics
OverflowPanics(r) ==
    /\ pc = "request"
    /\ with_retry
    /\ tries = MaxTries
    /\ ~send_request(client.retry_policy, r).ok
    /\ IsRetryableKind(send_request(client.retry_policy, r).err)
    /\ resp' = r
    /\ last' = send_request(client.retry_policy, r)
    /\ pc' = "panicked"
    /\ UNCHANGED <<client, with_retry, attempts, result, tries, retryables,
                   sleeps, slept, calls, earlier, others>>

\* attempts += 1 at u64::MAX without overflow checks: attempts is 0 again
OverflowWraps(r) ==
    /\ pc = "request"
    /\ with_retry
    /\ tries = MaxTries
    /\ ~send_request(client.retry_policy, r).ok
    /\ IsRetryableKind(send_request(client.retry_policy, r).err)
    /\ resp' = r
    /\ last' = send_request(client.retry_policy, r)
    /\ attempts' = 0
    /\ IF Exhausted(0, client.retry_policy)
       THEN /\ result' =
                 GetFinish(Err(Escalate(send_request(client.retry_policy,
                                                     r).err, 0)))
            /\ pc' = "done"
       ELSE /\ pc' = "sleep"
            /\ UNCHANGED result
    /\ UNCHANGED <<client, with_retry, tries, retryables, sleeps, slept,
                   calls, earlier, others>>

LiveNext ==
    \/ \E w \in BOOLEAN : Get(w)
    \/ \E r \in Responses : GetOnce(r)
    \/ \E r \in Responses : RetryTurn(r)
    \/ Sleep
    \/ Return
    \/ \E r \in Responses : RetryTurnBeyond(r)
    \/ SleepBeyond
    \/ \E r \in Responses : OverflowPanics(r)
    \/ \E r \in Responses : OverflowWraps(r)

\* a step of a running call: an attempt or a sleep
CallStep ==
    \/ \E r \in Responses : GetOnce(r)
    \/ \E r \in Responses : RetryTurn(r)
    \/ Sleep
    \/ SleepBeyond
    \/ \E r \in Responses :
          RetryTurnBeyond(r) \/ OverflowPanics(r) \/ OverflowWraps(r)

\* the end of the counter
Overflow == \E r \in Responses : OverflowPanics(r) \/ OverflowWraps(r)

\* every attempt and every sleep completes (weak fairness of the step of a
\* running call), and the counter, being finite, overflows in a loop that
\* does not end (strong fairness of the overflow)
\* the default policy with every attempt limit of the model
LiveInit ==
    /\ ClientInit([retriable_codes : {DefaultRetryPolicy.retriable_codes},
                   interval : {DefaultInterval},
                   attempts : 0..MaxLimit])
    /\ e = NoErrorCase
    /\ o = NoRun

LiveSpec ==
    /\ LiveInit
    /\ [][LiveNext]_vars
    /\ WF_vars(CallStep)
    /\ SF_vars(Overflow)

\* C18: every get with with_retry = true eventually returns, for every
\* policy (an attempt limit of 0 or 1 included) and every sequence of
\* answers, when each attempt and each sleep completes.
C18_GetReturns ==
    (pc = "request" /\ with_retry) ~> (pc = "done")

\* the body of the last answer holds what the typed envelope needs: a
\* result array of well-formed records
Deserializable ==
    /\ resp.text.value.result.t = "array"
    /\ \A i \in 1..Len(resp.text.value.result.items) :
          resp.text.value.result.items[i].valid

\* C19, as claimed: when the first k - 1 attempts (1 <= k <= n) fail with
\* Retryable errors and attempt k succeeds, get returns the body of attempt
\* k after exactly k attempts and k - 1 sleeps.  Stated for bodies that
\* hold a result array.
C19_BodyOfSuccessReturned ==
    (/\ pc = "done"
     /\ with_retry
     /\ last.ok
     /\ tries <= Policy.attempts
     /\ resp.text.value.result.t = "array")
        => /\ tries = retryables + 1
           /\ sleeps = tries - 1
           /\ result.ok
           /\ result.val.result = resp.text.value.result.items
           /\ result.val.message = FieldText(resp.text.value.message)

\* C19, amended: when the first k - 1 attempts fail with Retryable errors
\* and attempt k succeeds, get ends after exactly k attempts and k - 1
\* sleeps and reports none of the Retryable errors: it returns the body of
\* attempt k, parsed, when that body deserializes into the typed envelope,
\* and the Fatal parsing error when it does not.
C19_SuccessAfterRetries ==
    (/\ pc = "done"
     /\ with_retry
     /\ last.ok
     /\ tries <= Policy.attempts)
        => /\ last = Ok(resp.text)
           /\ tries = retryables + 1
           /\ sleeps = tries - 1
           /\ Deserializable =>
                /\ result.ok
                /\ result.val.result = resp.text.value.result.items
                /\ result.val.message = FieldText(resp.text.value.message)
           /\ ~Deserializable =>
                /\ ~result.ok
                /\ result.err.kind = Fatal
                /\ result.err.source # None
                /\ result.err.source[1].lib = "serde_json"
                /\ result.err.message = None

C19_Witness ==
    /\ pc = "done"
    /\ with_retry
    /\ Policy.attempts = 3
    /\ retryables = 2
    /\ tries = 3
    /\ sleeps = 2
    /\ last.ok
    /\ result.ok
    /\ Len(result.val.result) = 2
    /\ result.val.message = Some(Busy)

====
